---- MODULE Spec2Model ----
(***************************************************************************)
(* Gav-Autograder: the compile / build / execute / compare pipeline of     *)
(* autograder/models.py with its TestOutput cache and invalidation rules.  *)
(*                                                                         *)
(* Every request handler is a process.  A handler that only touches the    *)
(* database (TestCase save/delete, Submission delete) is one atomic        *)
(* action.  Submission.save() and Submission.test_results are split at     *)
(* their calls to the database, the file system and the docker engine, so  *)
(* that two requests can interleave the way two web workers do.  Database  *)
(* statements commit as they are issued (Django's autocommit default; the  *)
(* settings do not set ATOMIC_REQUESTS).                                   *)
(***************************************************************************)
EXTENDS Integers, Sequences, FiniteSets, TLC

(* ------------------------------ bounds --------------------------------- *)
\* number of Submission primary keys
MaxSubmissions == 2
\* number of TestCase primary keys
MaxTestCases == 2
\* number of source artifacts one submission can go through
MaxSources == 2
\* number of requests handled in one behaviour
MaxRequests == 4
\* number of requests that arrive while another one is being handled
MaxOverlaps == 1
\* longest output text the comparator is checked on
MaxLen == 3

Submissions == 1..MaxSubmissions
TestCases == 1..MaxTestCases
\* an assignment and another one
Assignments == {1, 2}
\* the web workers: as many as there can be requests in progress at the same time
Procs == 1..(MaxOverlaps + 1)

(* ------------------------------- texts --------------------------------- *)
\* a text is a sequence of characters; "\n" is the newline character
Chars == {"5", "\n"}
Strings == UNION {[1..n -> Chars] : n \in 0..MaxLen}

\* the texts an instructor types into TestCase.input / TestCase.output
TestCaseInputs == {<<"5">>}
TestCaseOutputs == {<<"5", "\n">>}
\* what container.logs().decode() can hold after one run of a student program
ContainerOutputs == {<<"5", "\n">>, <<"5", "5", "\n">>}

(* ------------------------------- state --------------------------------- *)
VARIABLES
    submission,     \* the Submission table: pk -> row
    testcase,       \* the TestCase table: pk -> row
    testoutput,     \* the TestOutput table: [submission pk][testcase pk] -> outputs of its rows, in pk order
    context_dirs,   \* the context directories that exist under MEDIA_ROOT/docker
    images,         \* the image tags the docker engine holds
    containers,     \* the number of containers the docker engine holds
    proc,           \* the request each worker is handling, with its locals
    requests,       \* number of requests begun so far
    overlaps,       \* number of requests begun while another one was being handled
    flag_source,    \* history: the source artifact Submission.compiles was computed from (0: never computed)
    clean,          \* history: a full_test of the submission returned and nothing was changed since
    clean_results,  \* history: what test_results returned first since the submission became clean (n: 0 not yet, 1 once, 2 more often)
    last,           \* history: the request that has just ended, as its worker left it
    cmp             \* the comparator's operands and result (specification CmpSpec)

vars == <<submission, testcase, testoutput, context_dirs, images, containers,
          proc, requests, overlaps, flag_source, clean, clean_results, last, cmp>>

(* ------------------------------ helpers -------------------------------- *)
NoSubmission == [state |-> "unsaved", assignment |-> 0, source_file |-> 0, compiles |-> FALSE]
NoTestCase == [state |-> "unsaved", assignment |-> 0, input |-> <<>>, output |-> <<>>]
NoResults == [compiles |-> FALSE, tests |-> <<>>]
NoCleanResults == [n |-> 0, results |-> NoResults]
None == <<>>

\* instance._state.adding: the row has not been written to the database yet
StateAdding(row) == row.state = "unsaved"

\* the primary key an INSERT gets: auto-increment, never reused
NextPk(table, keys) ==
    IF \E k \in keys : table[k].state = "unsaved"
    THEN CHOOSE k \in keys : table[k].state = "unsaved" /\ \A j \in keys : j < k => table[j].state # "unsaved"
    ELSE 0

\* mutant: the directory is not named after the submission
get_context_path_shared(s) == <<"docker", "context", 0>>

\* os.path.join(settings.MEDIA_ROOT, 'docker', f'context-{self.pk}')
get_context_path(s) == <<"docker", "context", s>>
\* f'gav-autograder/submission-{self.pk}'
ImageTag(s) == <<"gav-autograder", "submission", s>>

RECURSIVE Ascending(_)
Ascending(S) ==
    IF S = {} THEN <<>>
    ELSE LET m == CHOOSE x \in S : \A y \in S : x <= y
         IN <<m>> \o Ascending(S \ {m})

\* assignment.testcase_set.all(): the rows of the assignment's test cases, read in one query
testcase_set(a) ==
    LET pks == Ascending({t \in TestCases : testcase[t].state = "saved" /\ testcase[t].assignment = a})
    IN [i \in 1..Len(pks) |-> [pk |-> pks[i], input |-> testcase[pks[i]].input, output |-> testcase[pks[i]].output]]

\* the pks of the test cases of assignment a
TestCasesOf(a) == {t \in TestCases : testcase[t].state = "saved" /\ testcase[t].assignment = a}

NoOutputs == [t \in TestCases |-> <<>>]

RECURSIVE SumLen(_, _)
SumLen(f, S) ==
    IF S = {} THEN 0
    ELSE LET x == CHOOSE x \in S : TRUE IN Len(f[x]) + SumLen(f, S \ {x})

\* number of TestOutput rows that reference test case t
RowsOfTestCase(t) ==
    LET f == [s \in Submissions |-> testoutput[s][t]] IN SumLen(f, Submissions)
\* number of TestOutput rows that reference submission s
RowsOfSubmission(s) == SumLen(testoutput[s], TestCases)

(* ----------------------------- comparator ------------------------------ *)
\* mutant: passed read off the annotation (no character of the actual output marked incorrect)
passed_by_annotation(test_output, output) ==
    \A i \in 1..Len(test_output) : i <= Len(output) /\ test_output[i] = output[i]

\* 'passed': test_output == testcase.output
passed(test_output, output) == test_output = output

\* mutant: a character beyond the end of the expected output is not marked
incorrect_within(test_output, output, i) == (i <= Len(output)) /\ (test_output[i] # output[i])

\* 'incorrect' of the character at Python index i-1
incorrect(test_output, output, i) == (i > Len(output)) \/ (test_output[i] # output[i])

\* 'newline' of the character at Python index i-1
newline(test_output, i) == test_output[i] = "\n"

\* mutant: missing_output clamped at zero
missing_output_clamped(test_output, output) ==
    IF Len(output) > Len(test_output) THEN Len(output) - Len(test_output) ELSE 0

\* 'missing_output': len(testcase.output) - len(test_output)
missing_output(test_output, output) == Len(output) - Len(test_output)

\* the result dict test_results builds for one test case
TestResult(test_output, tc) ==
    [passed |-> passed(test_output, tc.output),
     input |-> tc.input,
     output |-> [i \in 1..Len(test_output) |->
                    [char |-> test_output[i],
                     incorrect |-> incorrect(test_output, tc.output, i),
                     newline |-> newline(test_output, i)]],
     missing_output |-> missing_output(test_output, tc.output)]

(* ------------------------------ processes ------------------------------ *)
Idle ==
    [pc |-> "idle", kind |-> "none", self |-> 0,
     assignment |-> 0, source_file |-> 0, compiles |-> FALSE, update_fields |-> "none",
     docker_client |-> FALSE, image_tag |-> None, testcases |-> <<>>, test_output |-> <<>>,
     results |-> NoResults,
     \* history of this request
     n_client |-> 0, n_compile |-> 0, n_build |-> 0, n_run |-> 0, n_deleted |-> 0, n_miss |-> 0,
     compile_failed |-> FALSE, made_context |-> FALSE, built_image |-> FALSE,
     failed_at |-> "none",
     \* the test cases whose input-file-<pk>.txt this request wrote into its context,
     \* and those of them whose TestCase row was saved again since
     input_files |-> {}, edited |-> {}]

NoLast == Idle
InFlight(p) == proc[p].pc # "idle"
Quiet == \A p \in Procs : ~InFlight(p)
\* the worker that takes the next request: the first one that is free
FreeSlot(p) == ~InFlight(p) /\ \A q \in Procs : q < p => InFlight(q)
Ended(r) == r.pc \in {"returned", "raised"}

\* a request arrives, within the bounds
Arrives ==
    /\ requests < MaxRequests
    /\ Quiet \/ overlaps < MaxOverlaps
    /\ requests' = requests + 1
    /\ overlaps' = IF Quiet THEN overlaps ELSE overlaps + 1

\* a request that only touches the database has been handled
Handled(kind, pk, n_deleted) ==
    last' = [Idle EXCEPT !.pc = "returned", !.kind = kind, !.self = pk, !.n_deleted = n_deleted]

\* the exception leaves the handler: its locals are gone, its history is kept
Raise(r, where) ==
    [r EXCEPT !.pc = "raised", !.failed_at = where, !.testcases = <<>>, !.test_output = <<>>,
              !.results = NoResults, !.input_files = {}, !.edited = {}]
Return(r) ==
    [r EXCEPT !.pc = "returned", !.testcases = <<>>, !.test_output = <<>>,
              !.input_files = {}, !.edited = {}]

\* the empty database, the empty docker directory and engine, every worker free
InitSystem ==
    /\ submission = [s \in Submissions |-> NoSubmission]
    /\ testcase = [t \in TestCases |-> NoTestCase]
    /\ testoutput = [s \in Submissions |-> NoOutputs]
    /\ context_dirs = {}
    /\ images = {}
    /\ containers = 0
    /\ proc = [p \in Procs |-> Idle]
    /\ requests = 0
    /\ overlaps = 0
    /\ flag_source = [s \in Submissions |-> 0]
    /\ clean = [s \in Submissions |-> FALSE]
    /\ clean_results = [s \in Submissions |-> NoCleanResults]
    /\ last = NoLast

NoCmp == [test_output |-> <<>>, output |-> <<>>, done |-> FALSE, result |-> TestResult(<<>>, NoTestCase)]

Init == InitSystem /\ cmp = NoCmp

NothingClean ==
    /\ clean' = [s \in Submissions |-> FALSE]
    /\ clean_results' = [s \in Submissions |-> NoCleanResults]

(* ------------------------- TestCase requests --------------------------- *)
\* mutant: the filter on the test case is lost
delete_all_testoutputs(t, adding) ==
    IF adding
    THEN testoutput
    ELSE [s \in Submissions |-> [u \in TestCases |-> <<>>]]

\* mutant: the receiver is not connected
delete_no_obsolete_testoutputs(t, adding) == testoutput

\* pre_save receiver of TestCase: the TestOutput table it leaves
delete_obsolete_testoutputs(t, adding) ==
    IF adding
    THEN testoutput
    ELSE [s \in Submissions |-> [testoutput[s] EXCEPT ![t] = <<>>]]

\* TestCaseCreateView / admin add: TestCase.save() of a new row
TestCaseCreate(a, input, output) ==
    LET t == NextPk(testcase, TestCases) IN
    /\ Arrives
    /\ t # 0
    /\ testoutput' = delete_obsolete_testoutputs(t, StateAdding(testcase[t]))
    /\ testcase' = [testcase EXCEPT ![t] = [state |-> "saved", assignment |-> a, input |-> input, output |-> output]]
    /\ Handled("TestCaseCreate", t, 0)
    /\ NothingClean
    /\ UNCHANGED <<submission, context_dirs, images, containers, proc, flag_source, cmp>>

\* admin change form: TestCase.save() of an existing row
TestCaseSave(t, a, input, output) ==
    /\ Arrives
    /\ testcase[t].state = "saved"
    /\ testoutput' = delete_obsolete_testoutputs(t, StateAdding(testcase[t]))
    /\ testcase' = [testcase EXCEPT ![t] = [state |-> "saved", assignment |-> a, input |-> input, output |-> output]]
    /\ Handled("TestCaseSave", t, RowsOfTestCase(t))
    /\ NothingClean
    /\ proc' = [p \in Procs |-> IF t \in proc[p].input_files
                                 THEN [proc[p] EXCEPT !.edited = @ \cup {t}]
                                 ELSE proc[p]]
    /\ UNCHANGED <<submission, context_dirs, images, containers, flag_source, cmp>>

\* mutant: the foreign key to the submission keeps the rows (on_delete=DO_NOTHING)
DO_NOTHING_submission(s) == testoutput

\* TestOutput.submission, on_delete=models.CASCADE: the table a deleted submission leaves
CASCADE_submission(s) == [testoutput EXCEPT ![s] = NoOutputs]

\* TestOutput.testcase, on_delete=models.CASCADE: the table a deleted test case leaves
CASCADE_testcase(t) == [s \in Submissions |-> [testoutput[s] EXCEPT ![t] = <<>>]]

\* TestCaseDeleteView: on_delete=CASCADE removes the rows that reference the test case
TestCaseDelete(t) ==
    /\ Arrives
    /\ testcase[t].state = "saved"
    /\ testoutput' = CASCADE_testcase(t)
    /\ testcase' = [testcase EXCEPT ![t] = [NoTestCase EXCEPT !.state = "deleted"]]
    /\ Handled("TestCaseDelete", t, RowsOfTestCase(t))
    /\ NothingClean
    /\ UNCHANGED <<submission, context_dirs, images, containers, proc, flag_source, cmp>>

\* SubmissionDeleteView / admin delete: on_delete=CASCADE removes the submission's rows
SubmissionDelete(s) ==
    /\ Arrives
    /\ submission[s].state = "saved"
    /\ testoutput' = CASCADE_submission(s)
    /\ submission' = [submission EXCEPT ![s] = [NoSubmission EXCEPT !.state = "deleted"]]
    /\ Handled("SubmissionDelete", s, RowsOfSubmission(s))
    /\ flag_source' = [flag_source EXCEPT ![s] = 0]
    /\ clean' = [clean EXCEPT ![s] = FALSE]
    /\ clean_results' = [clean_results EXCEPT ![s] = NoCleanResults]
    /\ UNCHANGED <<testcase, context_dirs, images, containers, proc, cmp>>

(* ------------------------ evaluation: helpers -------------------------- *)
\* what a lazy evaluation that returns while the submission is clean hands back
NoteResults(r) ==
    clean_results' =
        IF r.pc = "returned" /\ r.kind = "test_results" /\ clean[r.self]
        THEN [clean_results EXCEPT ![r.self] =
                [n |-> IF @.n = 0 THEN 1 ELSE 2, results |-> IF @.n = 0 THEN r.results ELSE @.results]]
        ELSE clean_results

\* worker p goes on with locals r, or is free again when r ends the request
Moves(p, r) ==
    /\ proc' = [proc EXCEPT ![p] = IF Ended(r) THEN Idle ELSE r]
    /\ last' = IF Ended(r) THEN r ELSE NoLast
Goes(p, r) == Moves(p, r) /\ NoteResults(r)

\* mutant: the old rows are kept
delete_no_testoutputs(s) == testoutput

\* TestOutput.objects.filter(submission=self).delete(): the table it leaves
delete_testoutputs(s) == [testoutput EXCEPT ![s] = NoOutputs]

\* mutant: the row is built and never saved
TestOutput_unsaved(s, t, container_output) == testoutput

\* TestOutput.objects.create(submission=self, testcase=testcase, output=container_output)
TestOutput_create(s, t, container_output) ==
    [testoutput EXCEPT ![s][t] = Append(@, container_output)]

\* mutant: the test on _state.adding is inverted
no_need_to_continue_when_adding(adding, compiles) == adding /\ ~compiles

\* 'if not self._state.adding and not self.compiles: return results'
no_need_to_continue(adding, compiles) == ~adding /\ ~compiles

\* mutant: the except block returns None and leaves the directory
keep_context(dirs, context_path) == dirs

\* the except block of docker_prep: shutil.rmtree(context_path)
destroy_context(dirs, context_path) == dirs \ {context_path}

\* the end of one pass of the loop of full_test
NextInFullTest(r) ==
    IF Tail(r.testcases) = <<>>
    THEN [r EXCEPT !.pc = "docker_cleanup", !.testcases = <<>>, !.test_output = <<>>]
    ELSE [r EXCEPT !.pc = "single_test", !.testcases = Tail(@), !.test_output = <<>>]

\* the end of one pass of the loop of test_results: the result is appended
NextInTestResults(r, test_output) ==
    LET tc == Head(r.testcases)
        rr == [r EXCEPT !.results.tests = Append(@, TestResult(test_output, tc)),
                        !.test_output = <<>>, !.testcases = Tail(@)]
    IN IF rr.testcases # <<>> THEN [rr EXCEPT !.pc = "get"]
       ELSE IF rr.docker_client THEN [rr EXCEPT !.pc = "docker_cleanup"]
       ELSE Return(rr)

(* -------------------------- Submission.save ---------------------------- *)
\* the row super().save(*args, **kwargs) writes
SavedRow(s, update_fields, a) ==
    CASE update_fields = "all" -> [state |-> "saved", assignment |-> a, source_file |-> 1, compiles |-> FALSE]
      [] update_fields = "confirmed" -> submission[s]
      [] update_fields = "source_file" -> [submission[s] EXCEPT !.source_file = @ + 1]
      [] update_fields = "assignment" -> [submission[s] EXCEPT !.assignment = a]

CanSave(s, update_fields, a) ==
    CASE update_fields = "all" -> s # 0 /\ s = NextPk(submission, Submissions)
      [] update_fields = "confirmed" -> s # 0 /\ submission[s].state = "saved" /\ a = submission[s].assignment
      [] update_fields = "source_file" ->
            s # 0 /\ submission[s].state = "saved" /\ a = submission[s].assignment
            /\ submission[s].source_file < MaxSources
      [] update_fields = "assignment" -> s # 0 /\ submission[s].state = "saved" /\ a # submission[s].assignment

\* Submission.save(), first statement: super().save(*args, **kwargs)
save(p, s, update_fields, a) ==
    /\ Arrives
    /\ FreeSlot(p)
    /\ CanSave(s, update_fields, a)
    /\ LET row == SavedRow(s, update_fields, a) IN
        /\ submission' = [submission EXCEPT ![s] = row]
        /\ Moves(p, [Idle EXCEPT !.pc = "full_test", !.kind = "save", !.self = s,
                                 !.assignment = row.assignment, !.source_file = row.source_file,
                                 !.compiles = row.compiles, !.update_fields = update_fields])
    /\ clean' = [clean EXCEPT ![s] = FALSE]
    /\ clean_results' = [clean_results EXCEPT ![s] = NoCleanResults]
    /\ UNCHANGED <<testcase, testoutput, context_dirs, images, containers, flag_source, cmp>>

\* full_test, up to the call of docker_prep: delete the old rows, docker.from_env()
full_test(p) ==
    LET r == proc[p] IN
    /\ r.pc = "full_test"
    /\ testoutput' = delete_testoutputs(r.self)
    /\ Goes(p, [r EXCEPT !.pc = "docker_prep", !.docker_client = TRUE, !.n_client = @ + 1,
                         !.n_deleted = RowsOfSubmission(r.self)])
    /\ UNCHANGED <<submission, testcase, context_dirs, images, containers, requests, overlaps, flag_source, clean, cmp>>

\* mutant: os.makedirs(context_path, exist_ok=True)
makedirs_exist_ok(dirs, context_path) == FALSE

\* os.makedirs(context_path) raises FileExistsError: the directory is there
makedirs_raises(dirs, context_path) == context_path \in dirs

\* docker_prep up to the image build: os.makedirs, g++ under its timeout, the files of the context
docker_prep(p) ==
    LET r == proc[p]
        context_path == get_context_path(r.self)
    IN
    /\ r.pc = "docker_prep"
    /\ \/ \* os.makedirs raises FileExistsError
          /\ makedirs_raises(context_dirs, context_path)
          /\ Goes(p, Raise(r, "makedirs"))
          /\ UNCHANGED context_dirs
       \/ \* the compile fails: non-zero exit, timeout, or g++ cannot be run
          /\ ~makedirs_raises(context_dirs, context_path)
          /\ context_dirs' = destroy_context(context_dirs \cup {context_path}, context_path)
          /\ Goes(p, [r EXCEPT !.pc = IF r.kind = "save" THEN "save_compiles" ELSE "single_test",
                               !.image_tag = None, !.n_compile = @ + 1, !.compile_failed = TRUE])
       \/ \* the compile succeeds: Dockerfile and input files are written
          /\ ~makedirs_raises(context_dirs, context_path)
          /\ context_dirs' = context_dirs \cup {context_path}
          /\ Goes(p, [r EXCEPT !.pc = "images_build", !.n_compile = @ + 1, !.made_context = TRUE,
                               !.input_files = TestCasesOf(r.assignment)])
    /\ UNCHANGED <<submission, testcase, testoutput, images, containers, requests, overlaps, flag_source, clean, cmp>>

\* docker_prep, the image build: client.images.build(path=context_path, tag=image_tag)
images_build(p) ==
    LET r == proc[p]
        image_tag == ImageTag(r.self)
    IN
    /\ r.pc = "images_build"
    /\ \/ \* the build fails (BuildError, APIError, or the context is gone)
          /\ Goes(p, Raise([r EXCEPT !.n_build = @ + 1], "build"))
          /\ UNCHANGED images
       \/ /\ get_context_path(r.self) \in context_dirs
          /\ images' = images \cup {image_tag}
          /\ Goes(p, [r EXCEPT !.pc = IF r.kind = "save" THEN "testcase_set" ELSE "single_test",
                               !.image_tag = image_tag, !.n_build = @ + 1, !.built_image = TRUE])
    /\ UNCHANGED <<submission, testcase, testoutput, context_dirs, containers, requests, overlaps, flag_source, clean, cmp>>

\* full_test: 'for testcase in self.assignment.testcase_set.all()'
full_test_testcase_set(p) ==
    LET r == proc[p]
        tcs == testcase_set(r.assignment)
    IN
    /\ r.pc = "testcase_set"
    /\ Goes(p, [r EXCEPT !.testcases = tcs,
                         !.pc = IF tcs = <<>> THEN "docker_cleanup" ELSE "single_test"])
    /\ UNCHANGED <<submission, testcase, testoutput, context_dirs, images, containers, requests, overlaps, flag_source, clean, cmp>>

\* mutant: the wait has no timeout
wait_without_timeout(running) == IF running THEN "blocked" ELSE "exited"

\* container.wait(timeout=5): returns when the program has exited, raises
\* requests' ReadTimeout when it is still running after 5 seconds
wait(running) == IF running THEN "ReadTimeout" ELSE "exited"

\* single_test, the container: create, start, wait(timeout=5), logs, remove
single_test(p) ==
    LET r == proc[p] IN
    /\ r.pc = "single_test"
    /\ \/ \* containers.create raises: no such image, or the engine fails
          /\ Goes(p, Raise(r, "create"))
          /\ UNCHANGED containers
       \/ \* start, logs or remove raises: the container stays behind
          /\ r.image_tag \in images
          /\ containers' = containers + 1
          /\ Goes(p, Raise([r EXCEPT !.n_run = @ + 1], "container"))
       \/ \* the program is still running after 5 seconds: the exception of wait
          \* leaves single_test, the container stays behind, running
          /\ r.image_tag \in images
          /\ containers' = containers + 1
          /\ Goes(p, CASE wait(TRUE) = "ReadTimeout" -> Raise([r EXCEPT !.n_run = @ + 1], "wait")
                       [] wait(TRUE) = "blocked" -> [r EXCEPT !.pc = "wait", !.n_run = @ + 1])
       \/ \* the program ends in time and the container is removed
          /\ r.image_tag \in images
          /\ wait(FALSE) = "exited"
          /\ \E container_output \in ContainerOutputs :
                Goes(p, [r EXCEPT !.pc = "create_testoutput", !.test_output = container_output,
                                  !.n_run = @ + 1])
          /\ UNCHANGED containers
    /\ UNCHANGED <<submission, testcase, testoutput, context_dirs, images, requests, overlaps, flag_source, clean, cmp>>

\* single_test, the rest: the log file, TestOutput.objects.create, return container_output
create_testoutput(p) ==
    LET r == proc[p]
        t == Head(r.testcases).pk
    IN
    /\ r.pc = "create_testoutput"
    /\ \/ \* the log cannot be written, or the INSERT fails
          /\ Goes(p, Raise(r, "create_testoutput"))
          /\ UNCHANGED testoutput
       \/ \* both foreign keys still have their rows
          /\ submission[r.self].state = "saved"
          /\ testcase[t].state = "saved"
          /\ testoutput' = TestOutput_create(r.self, t, r.test_output)
          /\ Goes(p, IF r.kind = "save" THEN NextInFullTest(r) ELSE NextInTestResults(r, r.test_output))
    /\ UNCHANGED <<submission, testcase, context_dirs, images, containers, requests, overlaps, flag_source, clean, cmp>>

\* docker_cleanup: client.images.remove(image_tag), shutil.rmtree(self.get_context_path())
docker_cleanup(p) ==
    LET r == proc[p]
        context_path == get_context_path(r.self)
    IN
    /\ r.pc = "docker_cleanup"
    /\ \/ \* images.remove raises: the image is gone, or the engine fails
          /\ Goes(p, Raise(r, "images_remove"))
          /\ UNCHANGED <<images, context_dirs>>
       \/ \* the image is removed, rmtree raises: the directory is gone
          /\ r.image_tag \in images
          /\ context_path \notin context_dirs
          /\ images' = images \ {r.image_tag}
          /\ Goes(p, Raise(r, "rmtree"))
          /\ UNCHANGED context_dirs
       \/ /\ r.image_tag \in images
          /\ context_path \in context_dirs
          /\ images' = images \ {r.image_tag}
          /\ context_dirs' = context_dirs \ {context_path}
          /\ Goes(p, IF r.kind = "save" THEN [r EXCEPT !.pc = "save_compiles"] ELSE Return(r))
    /\ UNCHANGED <<submission, testcase, testoutput, containers, requests, overlaps, flag_source, clean, cmp>>

\* Submission.save(), the end: self.compiles = self.full_test(); super().save(update_fields=['compiles'])
save_compiles(p) ==
    LET r == proc[p]
        compiles == r.image_tag # None
    IN
    /\ r.pc = "save_compiles"
    /\ \/ \* the UPDATE finds no row (DatabaseError)
          /\ submission[r.self].state # "saved"
          /\ Goes(p, Raise(r, "save"))
          /\ UNCHANGED <<submission, flag_source, clean>>
       \/ /\ submission[r.self].state = "saved"
          /\ submission' = [submission EXCEPT ![r.self].compiles = compiles]
          /\ flag_source' = [flag_source EXCEPT ![r.self] = r.source_file]
          /\ clean' = [clean EXCEPT ![r.self] = TRUE]
          /\ Moves(p, Return([r EXCEPT !.compiles = compiles]))
          /\ clean_results' = [clean_results EXCEPT ![r.self] = NoCleanResults]
    /\ UNCHANGED <<testcase, testoutput, context_dirs, images, containers, requests, overlaps, cmp>>

(* ---------------------- Submission.test_results ------------------------ *)
\* test_results up to the first pass of its loop (SubmissionView, submissiongrade)
test_results(p, s) ==
    LET row == submission[s]
        r == [Idle EXCEPT !.kind = "test_results", !.self = s, !.assignment = row.assignment,
                          !.source_file = row.source_file, !.compiles = row.compiles,
                          !.results = [compiles |-> row.compiles, tests |-> <<>>]]
        tcs == testcase_set(row.assignment)
    IN
    /\ Arrives
    /\ FreeSlot(p)
    /\ row.state = "saved"
    /\ Goes(p, IF no_need_to_continue(StateAdding(row), r.compiles) THEN Return(r)
               ELSE IF tcs = <<>> THEN Return(r)
               ELSE [r EXCEPT !.pc = "get", !.testcases = tcs])
    /\ UNCHANGED <<submission, testcase, testoutput, context_dirs, images, containers, flag_source, clean, cmp>>

\* mutant: the stored rows are not looked up
testoutput_set_none(s, t) == <<>>

\* self.testoutput_set.filter(testcase=testcase): the outputs of the rows of the pair
testoutput_set(s, t) == testoutput[s][t]

\* mutant: the client and the image are made at every miss
needs_prep_always(docker_client) == TRUE

\* 'if docker_client is None'
needs_prep(docker_client) == ~docker_client

\* test_results, one pass of the loop up to single_test: self.testoutput_set.get(testcase=testcase)
get(p) ==
    LET r == proc[p]
        rows == testoutput_set(r.self, Head(r.testcases).pk)
        miss == [r EXCEPT !.n_miss = @ + 1]
    IN
    /\ r.pc = "get"
    /\ Goes(p, CASE Len(rows) = 1 -> NextInTestResults(r, rows[1])
                 [] Len(rows) > 1 -> Raise(r, "get")
                 [] Len(rows) = 0 /\ ~needs_prep(r.docker_client) -> [miss EXCEPT !.pc = "single_test"]
                 [] Len(rows) = 0 /\ needs_prep(r.docker_client) ->
                        [miss EXCEPT !.pc = "docker_prep", !.docker_client = TRUE, !.n_client = @ + 1])
    /\ UNCHANGED <<submission, testcase, testoutput, context_dirs, images, containers, requests, overlaps, flag_source, clean, cmp>>

(* --------------------------- specifications ---------------------------- *)
\* a request arrives
Request ==
    \/ \E a \in Assignments, input \in TestCaseInputs, output \in TestCaseOutputs :
            TestCaseCreate(a, input, output)
    \/ \E t \in TestCases, a \in Assignments, input \in TestCaseInputs, output \in TestCaseOutputs :
            TestCaseSave(t, a, input, output)
    \/ \E t \in TestCases : TestCaseDelete(t)
    \/ \E s \in Submissions : SubmissionDelete(s)
    \/ \E p \in Procs, s \in Submissions, a \in Assignments :
            \E update_fields \in {"all", "confirmed", "source_file", "assignment"} :
                save(p, s, update_fields, a)
    \/ \E p \in Procs, s \in Submissions : test_results(p, s)

\* a worker goes on with its request
Step ==
    \E p \in Procs :
        \/ full_test(p)
        \/ docker_prep(p)
        \/ images_build(p)
        \/ full_test_testcase_set(p)
        \/ single_test(p)
        \/ create_testoutput(p)
        \/ docker_cleanup(p)
        \/ save_compiles(p)
        \/ get(p)

\* the workers handle requests at the same time
Next == Request \/ Step
Spec == Init /\ [][Next]_vars

\* one request at a time: a request arrives when no other is being handled
SeqNext == (Quiet /\ Request) \/ Step
SeqSpec == Init /\ [][SeqNext]_vars

\* the workers are threads of the web server: a handler that can take its next
\* step is not held back forever
LiveSpec == Init /\ [][SeqNext]_vars /\ WF_vars(Step)
LiveSpecInterleaved == Init /\ [][Next]_vars /\ WF_vars(Step)

\* the comparator of test_results on its own: any captured output against any expected output
CmpInit ==
    /\ InitSystem
    /\ cmp \in {[NoCmp EXCEPT !.test_output = a, !.output = e] : a \in Strings, e \in Strings}

\* the body of the loop of test_results from 'result = {' on, for one pair of texts
Compare ==
    /\ ~cmp.done
    /\ cmp' = [cmp EXCEPT !.done = TRUE,
                          !.result = TestResult(cmp.test_output, [NoTestCase EXCEPT !.output = cmp.output])]
    /\ UNCHANGED <<submission, testcase, testoutput, context_dirs, images, containers,
                   proc, requests, overlaps, flag_source, clean, clean_results, last>>

CmpNext == Compare
CmpSpec == CmpInit /\ [][CmpNext]_vars

(* ------------------------------- claims -------------------------------- *)
\* an evaluation (Submission.save with its full_test, or test_results) has just ended
EvaluationEnded == Ended(last) /\ last.kind \in {"save", "test_results"}

\* C1: whenever an eager or a lazy evaluation ends, by returning or by raising at
\* any stage, the context directory and the image this evaluation created no
\* longer exist.
C1_CleanupOnEveryExit ==
    EvaluationEnded =>
        /\ last.made_context => get_context_path(last.self) \notin context_dirs
        /\ last.built_image => ImageTag(last.self) \notin images

\* C2: in every reachable state, under any interleaving of requests, there is at
\* most one TestOutput row for each (submission, testcase) pair.
C2_AtMostOneTestOutputPerPair ==
    \A s \in Submissions, t \in TestCases : Len(testoutput[s][t]) <= 1

\* a lazy evaluation of submission s has just returned or raised
LazyEnded(s) == Ended(last) /\ last.kind = "test_results" /\ last.self = s

\* this step is one of a lazy evaluation of submission s
LazyStep(s) ==
    \/ \E p \in Procs : /\ proc'[p] # proc[p]
                        /\ \/ proc[p].kind = "test_results" /\ proc[p].self = s
                           \/ proc'[p].kind = "test_results" /\ proc'[p].self = s
    \/ Ended(last') /\ last'.kind = "test_results" /\ last'.self = s

NoDockerWork(r) == ~r.docker_client /\ r.n_client = 0 /\ r.n_compile = 0 /\ r.n_build = 0 /\ r.n_run = 0

\* C3: once a full_test of a submission has returned and nothing was changed
\* since, test_results creates no docker client, compiles nothing, builds no
\* image, runs no container, leaves the TestOutput table unchanged, and returns
\* the same results on every repetition.
C3_IdempotentReads ==
    [][\A s \in Submissions : (clean[s] /\ LazyStep(s)) =>
            /\ UNCHANGED <<testoutput, context_dirs, images, containers, submission>>
            /\ \A p \in Procs : proc'[p].kind = "test_results" /\ proc'[p].self = s => NoDockerWork(proc'[p])
            /\ (Ended(last') /\ last'.kind = "test_results" /\ last'.self = s) =>
                    /\ last'.pc = "returned"
                    /\ NoDockerWork(last')
                    /\ last'.results = clean_results'[s].results]_vars

\* a repetition: the second or a later test_results of a clean submission has returned its tests
C3_Witness ==
    \E s \in Submissions :
        /\ LazyEnded(s) /\ clean[s] /\ clean_results[s].n >= 2
        /\ last.results.compiles /\ last.results.tests # <<>>

\* C4: saving an existing TestCase deletes exactly the TestOutput rows of that
\* test case, for every submission, and leaves every other row unchanged;
\* creating a TestCase deletes nothing.
C4_TestCaseSaveInvalidatesExactly ==
    [][/\ \A t \in TestCases : (Ended(last') /\ last'.kind = "TestCaseSave" /\ last'.self = t) =>
                testoutput' = [s \in Submissions |->
                                [u \in TestCases |-> IF u = t THEN <<>> ELSE testoutput[s][u]]]
       /\ (Ended(last') /\ last'.kind = "TestCaseCreate") => testoutput' = testoutput]_vars

\* a saved test case lost a row while a row of another test case is still there
C4_Witness ==
    /\ Ended(last) /\ last.kind = "TestCaseSave" /\ last.n_deleted >= 1
    /\ \E s \in Submissions, u \in TestCases : u # last.self /\ testoutput[s][u] # <<>>

\* C5: replacing a submission's source deletes exactly that submission's
\* TestOutput rows, no row of another submission, and leaves the compiles flag
\* no longer carrying the value computed for the previous source.
C5_SourceReplacementResets ==
    [][\A p \in Procs :
            (proc'[p] # proc[p] /\ proc[p].kind = "save" /\ proc[p].update_fields = "source_file") =>
                /\ \A s \in Submissions : s # proc[p].self => testoutput'[s] = testoutput[s]
                /\ proc[p].pc = "full_test" => testoutput'[proc[p].self] = NoOutputs
                /\ Ended(last') => flag_source'[proc[p].self] # proc[p].source_file - 1]_vars

\* C6: a result of test_results whose compiles flag is false has an empty test
\* list, and test_results of a submission whose flag is false returns at once:
\* no docker client, no compile, no image build, no container.
C6_NotCompiledNoTests ==
    /\ \A p \in Procs : proc[p].kind = "test_results" => proc[p].compiles
    /\ (Ended(last) /\ last.kind = "test_results" /\ ~last.compiles) =>
            last.pc = "returned" /\ NoDockerWork(last)
    /\ (Ended(last) /\ last.kind = "test_results" /\ last.pc = "returned" /\ ~last.results.compiles) =>
            last.results.tests = <<>>

\* test_results has returned the compile-failure result for a submission that has test cases
C6_Witness ==
    /\ Ended(last) /\ last.kind = "test_results" /\ last.pc = "returned"
    /\ ~last.results.compiles
    /\ testcase_set(last.assignment) # <<>>

\* C7: passed is true if and only if the actual output has the length of the
\* expected output and the same character at every position.
C7_PassedIffEqual ==
    cmp.done =>
        (cmp.result.passed <=>
            /\ Len(cmp.test_output) = Len(cmp.output)
            /\ \A i \in 1..Len(cmp.test_output) : cmp.test_output[i] = cmp.output[i])

\* the actual output lacks only the final newline of the expected output, and fails
C7_Witness ==
    /\ cmp.done /\ ~cmp.result.passed
    /\ cmp.output = cmp.test_output \o <<"\n">>

\* C8: missing_output is len(expected) - len(actual) as a signed integer:
\* positive when the actual output is shorter, zero when the lengths are equal,
\* negative when it is longer.
C8_MissingOutputSigned ==
    cmp.done =>
        /\ cmp.result.missing_output + Len(cmp.test_output) = Len(cmp.output)
        /\ Len(cmp.test_output) < Len(cmp.output) => cmp.result.missing_output > 0
        /\ Len(cmp.test_output) = Len(cmp.output) => cmp.result.missing_output = 0
        /\ Len(cmp.test_output) > Len(cmp.output) => cmp.result.missing_output < 0

\* the actual output is longer than the expected one
C8_Witness == cmp.done /\ cmp.result.missing_output < 0

\* C9: when the compile fails in an eager evaluation, the submission ends with
\* compiles = false, no image was built, no container was created, no
\* TestOutput row exists for the submission and its context directory is gone.
C9_CompileFailure ==
    (Ended(last) /\ last.kind = "save" /\ last.compile_failed) =>
        /\ last.pc = "returned"
        /\ submission[last.self].state = "saved" /\ ~submission[last.self].compiles
        /\ last.n_build = 0 /\ ~last.built_image /\ ImageTag(last.self) \notin images
        /\ last.n_run = 0
        /\ testoutput[last.self] = NoOutputs
        /\ get_context_path(last.self) \notin context_dirs

\* a save whose compile failed has ended, for a submission that has test cases
C9_Witness ==
    /\ Ended(last) /\ last.kind = "save" /\ last.compile_failed
    /\ testcase_set(last.assignment) # <<>>

\* C11: an execution timeout is not an error: no evaluation ends with the
\* exception of a container wait that ran into its 5-second bound; the
\* evaluation goes on with the output captured so far.
C11_TimeoutIsNotAnError ==
    EvaluationEnded => ~(last.pc = "raised" /\ last.failed_at = "wait")

\* C12: every container single_test created is removed by the time single_test
\* ends, however it ends: when an evaluation has ended, the docker engine
\* holds no container, running or stopped.
C12_NoContainerLeft ==
    EvaluationEnded => containers = 0

\* C13: a lazy evaluation whose compile fails returns a normal result: it
\* raises no error and asks for no container of an image that was never built.
C13_LazyCompileFailureAbsorbed ==
    (Ended(last) /\ last.kind = "test_results" /\ last.compile_failed) =>
        last.pc = "returned" /\ last.failed_at # "create"

\* C14: after a Submission is deleted no TestOutput row references it, after a
\* TestCase is deleted no TestOutput row references it, and the rows of other
\* submissions and other test cases are as they were before the deletion.
C14_CascadeDeletion ==
    [][/\ \A s \in Submissions : (Ended(last') /\ last'.kind = "SubmissionDelete" /\ last'.self = s) =>
                /\ RowsOfSubmission(s)' = 0
                /\ \A u \in Submissions : u # s => testoutput'[u] = testoutput[u]
       /\ \A t \in TestCases : (Ended(last') /\ last'.kind = "TestCaseDelete" /\ last'.self = t) =>
                /\ RowsOfTestCase(t)' = 0
                /\ \A s \in Submissions, u \in TestCases : u # t => testoutput'[s][u] = testoutput[s][u]
       /\ \A s \in Submissions : submission'[s].state = "deleted" => RowsOfSubmission(s)' = 0
       /\ \A t \in TestCases : testcase'[t].state = "deleted" => RowsOfTestCase(t)' = 0]_vars

\* a submission that had rows was deleted and a row of another submission is still there
C14_Witness ==
    /\ Ended(last) /\ last.kind = "SubmissionDelete" /\ last.n_deleted >= 1
    /\ \E u \in Submissions, t \in TestCases : u # last.self /\ testoutput[u][t] # <<>>

\* C15: every evaluation, eager or lazy, eventually ends, by returning or by
\* raising, whatever the compiler and the student program do: a worker that
\* is handling a request is free again later.
C15_EveryEvaluationEnds ==
    \A p \in Procs : InFlight(p) ~> ~InFlight(p)

\* an evaluation has ended whose program was still running when the wait ran out
C15_Witness ==
    EvaluationEnded /\ last.failed_at = "wait" /\ last.n_run >= 1

\* what a save whose full_test ran to its end leaves, r being the save as it ended
EagerPostcondition(r) ==
    /\ r.n_client = 1 /\ r.n_compile = 1 /\ r.n_build = 1
    /\ r.n_run = Cardinality(TestCasesOf(r.assignment))
    /\ \A t \in TestCases :
            Len(testoutput[r.self][t]) = IF t \in TestCasesOf(r.assignment) THEN 1 ELSE 0
    /\ ImageTag(r.self) \notin images
    /\ get_context_path(r.self) \notin context_dirs
    /\ submission[r.self].state = "saved" /\ submission[r.self].compiles

\* C16: full_test first deletes every TestOutput row of the submission; when
\* the compile and the build succeed and no step raises, it builds the image
\* once, runs one container per test case of the assignment, and when save
\* returns there is exactly one row for each of these test cases, the image
\* and the context directory are gone and compiles is stored as true.
C16_EagerPostcondition ==
    [][/\ \A p \in Procs : (proc[p].pc = "full_test" /\ proc'[p] # proc[p]) =>
                /\ NoDockerWork([proc[p] EXCEPT !.docker_client = FALSE])
                /\ testoutput'[proc[p].self] = NoOutputs
       /\ ((Ended(last) /\ last.kind = "save" /\ last.pc = "returned" /\ ~last.compile_failed) =>
                EagerPostcondition(last))']_vars

\* a save of a submission that had rows ran two test cases and returned
C16_Witness ==
    /\ Ended(last) /\ last.kind = "save" /\ last.pc = "returned" /\ ~last.compile_failed
    /\ last.n_deleted >= 1 /\ last.n_run = 2

\* the requests being handled and the one that has just ended
Requests == {proc[p] : p \in Procs} \cup {last}

\* C17: within one test_results call with at least one miss, the docker
\* client, the compile and the image build are each made once, at the first
\* miss and before any container; every container runs from the image this
\* call built; cleanup is reached only after the last test case, and when the
\* call returns after k >= 1 misses it has compiled once, built once, run k
\* containers, and its image and context directory are gone.
C17_BuildOncePerPass ==
    \A r \in Requests : r.kind = "test_results" =>
        /\ r.n_client = (IF r.n_miss >= 1 THEN 1 ELSE 0)
        /\ r.n_compile <= 1 /\ r.n_build <= 1
        /\ r.pc \in {"docker_prep", "images_build"} => r.n_miss = 1 /\ r.n_run = 0
        /\ r.n_run >= 1 =>
                /\ r.n_compile = 1 /\ r.n_build = 1 /\ r.built_image
                /\ r.image_tag = ImageTag(r.self)
        /\ r.pc = "docker_cleanup" => r.testcases = <<>>
        /\ (r.pc = "returned" /\ r.n_miss >= 1) =>
                /\ r.n_compile = 1 /\ r.n_build = 1 /\ r.n_run = r.n_miss
                /\ ImageTag(r.self) \notin images
                /\ get_context_path(r.self) \notin context_dirs

\* a test_results call has returned after two misses
C17_Witness ==
    /\ Ended(last) /\ last.kind = "test_results" /\ last.pc = "returned"
    /\ last.n_miss = 2 /\ last.n_run = 2

\* C18: a test_results call runs a container for a test case exactly when the
\* pair has no TestOutput row as the test case is reached, it changes no row
\* that exists, and when it returns for a submission whose compiles flag is
\* true every test case of the assignment has a row.
C18_RecomputesOnlyMissing ==
    [][/\ \A p \in Procs : (proc[p].kind = "test_results" /\ proc'[p] # proc[p]) =>
            LET r == proc[p]
                after == IF Ended(last') THEN last' ELSE proc'[p]
                rows == testoutput[r.self][Head(r.testcases).pk]
            IN  /\ r.pc = "get" => (after.n_miss = r.n_miss + 1 <=> rows = <<>>)
                /\ r.pc = "get" => (after.pc \in {"docker_prep", "single_test"} <=> rows = <<>>)
                /\ after.n_run # r.n_run => (r.pc = "single_test" /\ rows = <<>>)
                /\ \A s \in Submissions, t \in TestCases :
                        testoutput[s][t] # <<>> => testoutput'[s][t] = testoutput[s][t]
       /\ ((Ended(last) /\ last.kind = "test_results" /\ last.pc = "returned" /\ last.compiles) =>
                \A t \in TestCasesOf(last.assignment) : testoutput[last.self][t] # <<>>)']_vars

\* a test_results call has returned one stored output and one it had to run
C18_Witness ==
    /\ Ended(last) /\ last.kind = "test_results" /\ last.pc = "returned"
    /\ Len(last.results.tests) = 2 /\ last.n_miss = 1 /\ last.n_run = 1

\* C19: the annotated output has one entry per character of the actual
\* output; the entry at Python index i holds that character, is marked
\* incorrect unless i is within the expected output and the two characters
\* are equal, and is marked newline exactly when the character is "\n";
\* expected "5\n" against actual "55\n" marks indices 1 and 2 and not index 0.
C19_PerCharacterAnnotation ==
    cmp.done =>
        LET actual == cmp.test_output
            expected == cmp.output
            entries == cmp.result.output
        IN  /\ Len(entries) = Len(actual)
            /\ \A i \in 0..(Len(actual) - 1) :
                    /\ entries[i + 1].char = actual[i + 1]
                    /\ ~entries[i + 1].incorrect <=> (i < Len(expected) /\ actual[i + 1] = expected[i + 1])
                    /\ entries[i + 1].newline <=> actual[i + 1] = "\n"
            /\ (expected = <<"5", "\n">> /\ actual = <<"5", "5", "\n">>) =>
                    <<entries[1].incorrect, entries[2].incorrect, entries[3].incorrect>> = <<FALSE, TRUE, TRUE>>

\* expected "5\n" has been compared with actual "55\n"
C19_Witness ==
    /\ cmp.done /\ cmp.output = <<"5", "\n">> /\ cmp.test_output = <<"5", "5", "\n">>
    /\ cmp.result.output[3].incorrect /\ cmp.result.output[3].newline

\* C20: nothing locks a submission against a second evaluation: an evaluation
\* that reaches docker_prep while the context directory of its submission
\* exists, also when it is the directory of another evaluation in progress,
\* fails at os.makedirs and leaves the directory and the image to the other.
C20_NoLockOnSubmission ==
    [][\A p \in Procs :
        (proc[p].pc = "docker_prep" /\ proc'[p] # proc[p]
            /\ get_context_path(proc[p].self) \in context_dirs) =>
                /\ Ended(last') /\ last'.pc = "raised" /\ last'.failed_at = "makedirs"
                /\ UNCHANGED <<context_dirs, images>>]_vars

\* an evaluation has failed at os.makedirs on the directory that another
\* evaluation of the same submission, still in progress, had made
C20_Witness ==
    /\ EvaluationEnded /\ last.pc = "raised" /\ last.failed_at = "makedirs"
    /\ \E q \in Procs : /\ InFlight(q) /\ proc[q].self = last.self /\ proc[q].made_context
                         /\ get_context_path(last.self) \in context_dirs

\* what differs between two sets
Changed(before, after) == (before \ after) \cup (after \ before)

\* C21: evaluations of different submissions do not interfere, under any
\* interleaving: context path and image tag are injective in the submission,
\* and every step of an evaluation of submission s creates and removes only
\* context-<s> and gav-autograder/submission-<s>, inserts and deletes only
\* TestOutput rows of s, and writes no Submission row but that of s (a save
\* of a TestCase is no step of an evaluation).
C21_SubmissionsDoNotInterfere ==
    [][/\ \A s, u \in Submissions :
            s # u => get_context_path(s) # get_context_path(u) /\ ImageTag(s) # ImageTag(u)
       /\ \A p \in Procs :
            LET r == IF InFlight(p) THEN proc[p] ELSE IF Ended(last') THEN last' ELSE proc'[p]
            IN (proc'[p] # proc[p] /\ r.kind \in {"save", "test_results"}
                    /\ ~(Ended(last') /\ last'.kind = "TestCaseSave")) =>
                /\ \A d \in Changed(context_dirs, context_dirs') : d = <<"docker", "context", r.self>>
                /\ \A i \in Changed(images, images') : i = <<"gav-autograder", "submission", r.self>>
                /\ \A u \in Submissions : u # r.self =>
                        testoutput'[u] = testoutput[u] /\ submission'[u] = submission[u]]_vars

\* an evaluation has run its containers and returned while an evaluation of
\* another submission, begun before, holds its own directory and image
C21_Witness ==
    /\ EvaluationEnded /\ last.pc = "returned" /\ last.n_run >= 1
    /\ \E q \in Procs : /\ InFlight(q) /\ proc[q].self # last.self /\ proc[q].built_image
                         /\ get_context_path(proc[q].self) \in context_dirs
                         /\ ImageTag(proc[q].self) \in images
                         /\ proc[q].pc = "single_test"

\* C22: once an edit of a test case has completed, no TestOutput row of that
\* test case comes from its input as it was before the edit: no evaluation
\* inserts a row for a test case whose TestCase row was saved after the
\* evaluation wrote the input file it runs the program on.
C22_NoResultFromPreEditInput ==
    [][\A p \in Procs :
        (proc[p].pc = "create_testoutput" /\ proc'[p] # proc[p]) =>
            LET t == Head(proc[p].testcases).pk
            IN ~ /\ t \in proc[p].edited
                 /\ Len(testoutput'[proc[p].self][t]) = Len(testoutput[proc[p].self][t]) + 1]_vars

\* a save of submission s has written the row and has yet to delete the old TestOutput rows
SaveBegun(s) == \E p \in Procs : proc[p].kind = "save" /\ proc[p].self = s /\ proc[p].pc = "full_test"

\* C23: when requests do not overlap, the test case of every TestOutput row
\* belongs to the assignment of the row's submission, in every state but
\* those between the two first statements of a save (the row written, the
\* old rows not yet deleted): changing the assignment of a submission or of
\* a test case leaves no row that pairs the two across assignments.
C23_RowsWithinAssignment ==
    \A s \in Submissions, t \in TestCases :
        (testoutput[s][t] # <<>> /\ ~SaveBegun(s)) =>
            /\ submission[s].state = "saved" /\ testcase[t].state = "saved"
            /\ testcase[t].assignment = submission[s].assignment

\* a submission that had a row was moved to the other assignment and its
\* save has run the test case of that assignment
C23_Witness ==
    /\ Ended(last) /\ last.kind = "save" /\ last.update_fields = "assignment"
    /\ last.pc = "returned" /\ last.n_deleted >= 1 /\ last.n_run >= 1

\* C24: a failed evaluation does not block later ones: an evaluation that
\* overlaps no other request finds no context directory of its submission
\* when it reaches docker_prep, so that it never ends with the
\* FileExistsError of os.makedirs, whatever way the evaluation before ended.
C24_FailedEvaluationDoesNotBlock ==
    /\ \A p \in Procs : proc[p].pc = "docker_prep" => get_context_path(proc[p].self) \notin context_dirs
    /\ EvaluationEnded => last.failed_at # "makedirs"

\* C10: after an evaluation that ended because the image build failed, the
\* stored compiles flag is not false unless a compile of this source failed,
\* so that test_results does not report a compile failure for it.
C10_BuildFailureIsNotCompileFailure ==
    (Ended(last) /\ last.kind = "save" /\ last.failed_at = "build") =>
        ~ /\ submission[last.self].state = "saved"
          /\ ~submission[last.self].compiles
          /\ flag_source[last.self] # submission[last.self].source_file

====
